---- MODULE Spec2Model ----
(***************************************************************************)
(* Data-source ingestion pipeline of TransportDashboard: the DataSource    *)
(* cache and health bookkeeping (models/data_source.py), the refresh log   *)
(* (models/support.py) and the DataFetcher orchestrator                    *)
(* (services/data_fetcher.py), for one data source and one caller at a     *)
(* time.                                                                   *)
(*                                                                         *)
(* Time is the value datetime.utcnow() returns, in seconds.  A call of     *)
(* fetch_data reads the clock once when it is entered and once when the    *)
(* connection fetcher has come back; the bookkeeping after the fetcher     *)
(* (cache write, record_success / record_error, log completion) happens    *)
(* at that second reading.                                                 *)
(*                                                                         *)
(* The persistence layer is taken to be reliable: db.session.commit()      *)
(* does not fail.  Response-time statistics, sizes, durations and the      *)
(* first_data_received / data_updated_at stamps are write-only columns     *)
(* and are left out of the state.                                          *)
(***************************************************************************)
EXTENDS Integers, Sequences, FiniteSets, TLC

\* ------------------------------------------------------------------------
\* Bounds of the model
\* ------------------------------------------------------------------------
TickSeconds == 60
MaxTime == 120
MaxAttempts == 2
MaxHealthAttempts == 7
MaxEdits == 1
MaxWorkers == 2
MaxTaskFetches == 2
MaxQueue == 2
MaxWidgets == 2
\* The number of successes, and of errors, a data source counts up to.
MaxCount == 12
\* The number of link fetches, and of chunks one download is read in.
MaxLinkFetches == 3
MaxChunks == 2
\* The rows of a table's data, and the values of their one field.
MaxRows == 3
MaxValue == 2
\* The clock of the alert cooldown: its step and its last reading.
AlertTick == 1800
MaxAlertTime == 7200
\* The number of refreshes interleaved on one cache.
MaxCacheFetches == 3

\* ------------------------------------------------------------------------
\* Program constants
\* ------------------------------------------------------------------------
DegradedFailures == 3
DownFailures == 5
DegradedRate == 80
ErrorTruncate == 1000
AlertCooldown == 3600
DefaultAlertThreshold == 3

\* Python's None for the nullable integer and timestamp columns.
None == -1

Min(a, b) == IF a < b THEN a ELSE b

\* ------------------------------------------------------------------------
\* Values
\* ------------------------------------------------------------------------
\* DataSourceType; "websocket" is declared but has no fetcher.
SourceTypes == {"api", "upload", "link", "database", "document", "spreadsheet", "websocket"}

\* What a connection fetcher hands back: a list of records or a mapping.
NoData == [kind |-> "none", items |-> <<>>]
Payloads == { [kind |-> "list", items |-> <<"r1", "r2">>],
              [kind |-> "dict", items |-> <<"text">>] }

\* The output of an operator-supplied transform script that sets `result`.
Transformed(data) == [kind |-> "list", items |-> <<"t1">>]

\* The fetched data after a transform script has modified it in place.
Changed(data) ==
    IF data.kind = "none" THEN data
    ELSE [data EXCEPT !.items = Append(@, "changed")]

\* An exception message: which failure it is and how many characters long.
NoMessage == [id |-> "None", len |-> 0]
FetcherError == [id |-> "fetcher failed", len |-> 1200]
UnsupportedError == [id |-> "Unsupported source type", len |-> 40]

\* error_message[:n]
Truncate(m, n) == [m EXCEPT !.len = Min(m.len, n)]

\* The values the settings forms save.  The cache duration is always a
\* number of seconds here; the refresh frequency and the alert threshold
\* can be left blank.
CacheTtls == {TickSeconds, 2 * TickSeconds}
RefreshFrequencies == {None, TickSeconds}
AlertThresholds == {None, 1, DefaultAlertThreshold}

\* ------------------------------------------------------------------------
\* DataSource
\* ------------------------------------------------------------------------
\* The row a create route inserts: the form's settings, column defaults for
\* everything else.
NewDataSource(st, script, auto, freq, cen, ttl, aon, athr) ==
    [ source_type          |-> st,
      transform_script     |-> script,
      auto_refresh         |-> auto,
      refresh_frequency    |-> freq,
      cache_enabled        |-> cen,
      cache_ttl            |-> ttl,
      alert_on_failure     |-> aon,
      alert_threshold      |-> athr,
      alert_sent_at        |-> None,
      cached_data          |-> NoData,
      cached_at            |-> None,
      record_count         |-> 0,
      last_record_count    |-> None,
      health_status        |-> "unknown",
      health_checked_at    |-> None,
      error_count          |-> 0,
      success_count        |-> 0,
      consecutive_failures |-> 0,
      last_error_message   |-> NoMessage,
      last_refresh         |-> None,
      last_refresh_status  |-> "None",
      last_refresh_error   |-> NoMessage,
      next_refresh         |-> None,
      refresh_in_progress  |-> FALSE,
      data_path            |-> <<>>,
      is_active            |-> TRUE,
      deleted_at           |-> None ]

\* is_cache_valid with the expiry instant still counted as valid
is_cache_valid_inclusive(d, t) ==
    IF ~d.cache_enabled \/ d.cached_at = None
    THEN FALSE
    ELSE t <= d.cached_at + d.cache_ttl

\* DataSource.is_cache_valid at clock reading t
is_cache_valid(d, t) ==
    IF ~d.cache_enabled \/ d.cached_at = None
    THEN FALSE
    ELSE t < d.cached_at + d.cache_ttl

\* round(x, 2) of the non-negative rational num/den, in hundredths, ties to even
RoundHundredths(num, den) ==
    LET q == (num * 100) \div den
        r == (num * 100) % den
    IN  IF 2 * r > den THEN q + 1
        ELSE IF 2 * r < den THEN q
        ELSE IF q % 2 = 0 THEN q ELSE q + 1

\* A success rate cut off after two decimals instead of rounded
success_rate_truncated(d) ==
    LET total == d.success_count + d.error_count
    IN  IF total = 0 THEN 10000
        ELSE (d.success_count * 10000) \div total

\* DataSource.success_rate, in hundredths of a percent
success_rate(d) ==
    LET total == d.success_count + d.error_count
    IN  IF total = 0 THEN 10000
        ELSE RoundHundredths(d.success_count * 100, total)

\* DataSource.schedule_refresh
schedule_refresh(d, t) ==
    IF d.auto_refresh /\ d.refresh_frequency # None /\ d.refresh_frequency # 0
    THEN [d EXCEPT !.next_refresh = t + d.refresh_frequency]
    ELSE d

\* record_success that leaves the last error message in place
record_success_keeps_message(d, t, count) ==
    LET d1 == [d EXCEPT !.success_count = @ + 1,
                        !.consecutive_failures = 0,
                        !.last_refresh = t,
                        !.last_refresh_status = "success",
                        !.last_refresh_error = NoMessage,
                        !.health_status = "healthy",
                        !.health_checked_at = t,
                        !.refresh_in_progress = FALSE]
        d2 == IF count # None
              THEN [d1 EXCEPT !.last_record_count = d1.record_count,
                              !.record_count = count]
              ELSE d1
    IN  schedule_refresh(d2, t)

\* DataSource.record_success
record_success(d, t, count) ==
    LET d1 == [d EXCEPT !.success_count = @ + 1,
                        !.consecutive_failures = 0,
                        !.last_refresh = t,
                        !.last_refresh_status = "success",
                        !.last_refresh_error = NoMessage,
                        !.last_error_message = NoMessage,
                        !.health_status = "healthy",
                        !.health_checked_at = t,
                        !.refresh_in_progress = FALSE]
        d2 == IF count # None
              THEN [d1 EXCEPT !.last_record_count = d1.record_count,
                              !.record_count = count]
              ELSE d1
    IN  schedule_refresh(d2, t)

\* The health branch with 'degraded' only above three failures
health_after_error_late_degraded(d) ==
    IF d.consecutive_failures >= DownFailures THEN "down"
    ELSE IF d.consecutive_failures > DegradedFailures THEN "degraded"
    ELSE IF success_rate(d) < DegradedRate * 100 THEN "degraded"
    ELSE d.health_status

\* The health branch with 'down' only above five failures
health_after_error_late_down(d) ==
    IF d.consecutive_failures > DownFailures THEN "down"
    ELSE IF d.consecutive_failures >= DegradedFailures THEN "degraded"
    ELSE IF success_rate(d) < DegradedRate * 100 THEN "degraded"
    ELSE d.health_status

\* The health branch without the success-rate test
health_after_error_no_rate(d) ==
    IF d.consecutive_failures >= DownFailures THEN "down"
    ELSE IF d.consecutive_failures >= DegradedFailures THEN "degraded"
    ELSE d.health_status

\* The health branch of record_error
health_after_error(d) ==
    IF d.consecutive_failures >= DownFailures THEN "down"
    ELSE IF d.consecutive_failures >= DegradedFailures THEN "degraded"
    ELSE IF success_rate(d) < DegradedRate * 100 THEN "degraded"
    ELSE d.health_status

\* record_error that does not schedule the next refresh
record_error_no_schedule(d, t, msg) ==
    LET d1 == [d EXCEPT !.error_count = @ + 1,
                        !.consecutive_failures = @ + 1,
                        !.last_refresh = t,
                        !.last_refresh_status = "error",
                        !.last_refresh_error = Truncate(msg, ErrorTruncate),
                        !.last_error_message = Truncate(msg, ErrorTruncate),
                        !.refresh_in_progress = FALSE]
        d3 == [d1 EXCEPT !.health_status = health_after_error(d1),
                         !.health_checked_at = t]
    IN  IF ~d3.alert_on_failure
        THEN [ds |-> d3, raised |-> FALSE]
        ELSE IF d3.alert_threshold = None
        THEN [ds |-> d3, raised |-> TRUE]
        ELSE IF /\ d3.consecutive_failures >= d3.alert_threshold
                /\ \/ d3.alert_sent_at = None
                   \/ t - d3.alert_sent_at > AlertCooldown
        THEN [ds |-> [d3 EXCEPT !.alert_sent_at = t], raised |-> FALSE]
        ELSE [ds |-> d3, raised |-> FALSE]

\* record_error that alerts again once a full hour has passed
record_error_hour_inclusive(d, t, msg) ==
    LET d1 == [d EXCEPT !.error_count = @ + 1,
                        !.consecutive_failures = @ + 1,
                        !.last_refresh = t,
                        !.last_refresh_status = "error",
                        !.last_refresh_error = Truncate(msg, ErrorTruncate),
                        !.last_error_message = Truncate(msg, ErrorTruncate),
                        !.refresh_in_progress = FALSE]
        d2 == [d1 EXCEPT !.health_status = health_after_error(d1),
                         !.health_checked_at = t]
        d3 == schedule_refresh(d2, t)
    IN  IF ~d3.alert_on_failure
        THEN [ds |-> d3, raised |-> FALSE]
        ELSE IF d3.alert_threshold = None
        THEN [ds |-> d3, raised |-> TRUE]
        ELSE IF /\ d3.consecutive_failures >= d3.alert_threshold
                /\ \/ d3.alert_sent_at = None
                   \/ t - d3.alert_sent_at >= AlertCooldown
        THEN [ds |-> [d3 EXCEPT !.alert_sent_at = t], raised |-> FALSE]
        ELSE [ds |-> d3, raised |-> FALSE]

\* DataSource.record_error.  The alert test compares consecutive_failures
\* with alert_threshold; with alert_threshold None that comparison raises
\* TypeError after every assignment above it has been made.
record_error(d, t, msg) ==
    LET d1 == [d EXCEPT !.error_count = @ + 1,
                        !.consecutive_failures = @ + 1,
                        !.last_refresh = t,
                        !.last_refresh_status = "error",
                        !.last_refresh_error = Truncate(msg, ErrorTruncate),
                        !.last_error_message = Truncate(msg, ErrorTruncate),
                        !.refresh_in_progress = FALSE]
        d2 == [d1 EXCEPT !.health_status = health_after_error(d1),
                         !.health_checked_at = t]
        d3 == schedule_refresh(d2, t)
    IN  IF ~d3.alert_on_failure
        THEN [ds |-> d3, raised |-> FALSE]
        ELSE IF d3.alert_threshold = None
        THEN [ds |-> d3, raised |-> TRUE]
        ELSE IF /\ d3.consecutive_failures >= d3.alert_threshold
                /\ \/ d3.alert_sent_at = None
                   \/ t - d3.alert_sent_at > AlertCooldown
        THEN [ds |-> [d3 EXCEPT !.alert_sent_at = t], raised |-> FALSE]
        ELSE [ds |-> d3, raised |-> FALSE]

\* cache_data that stamps the cache without storing the data
cache_data_stamp_only(d, data, t) ==
    IF d.cache_enabled
    THEN [d EXCEPT !.cached_at = t]
    ELSE d

\* cache_data that stamps the cache with the time the data source was
\* last refreshed before this fetch
cache_data_old_stamp(d, data, t) ==
    IF d.cache_enabled
    THEN [d EXCEPT !.cached_data = data,
                   !.cached_at = IF d.last_refresh = None THEN t
                                 ELSE d.last_refresh]
    ELSE d

\* DataSource.cache_data
cache_data(d, data, t) ==
    IF d.cache_enabled
    THEN [d EXCEPT !.cached_data = data, !.cached_at = t]
    ELSE d

\* ------------------------------------------------------------------------
\* DataRefreshLog
\* ------------------------------------------------------------------------
\* DataRefreshLog.start_refresh: a new row, status 'running'
start_refresh(lg, trig) ==
    Append(lg, [status |-> "running", triggered_by |-> trig])

\* complete_success that never writes the status
complete_success_no_status(lg, i) == lg

\* DataRefreshLog.complete_success on row i
complete_success(lg, i) == [lg EXCEPT ![i].status = "success"]

\* DataRefreshLog.complete_error on row i
complete_error(lg, i) == [lg EXCEPT ![i].status = "error"]

\* ------------------------------------------------------------------------
\* DataFetcher
\* ------------------------------------------------------------------------
\* The dispatch of fetch_data: the fetcher for a source type, "" if none.
Dispatch(st) ==
    CASE st = "api"         -> "_fetch_from_api"
      [] st = "upload"      -> "_fetch_from_upload"
      [] st = "link"        -> "_fetch_from_link"
      [] st = "database"    -> "_fetch_from_database"
      [] st = "document"    -> "_fetch_from_document"
      [] st = "spreadsheet" -> "_fetch_from_spreadsheet"
      [] OTHER              -> ""

\* DataFetcher._process_data: run the transform script if there is one.
\* exec is what running it does: it raises, it ends without setting
\* `result`, or it sets `result`.
\* The script is handed the fetched object itself, so what it changed in
\* place before it raised or ended stays changed.
ExecOutcomes == {"raises", "no_result", "result", "changes_raises", "changes"}
_process_data(data, d, exec) ==
    IF ~d.transform_script THEN data
    ELSE IF exec = "result" THEN Transformed(data)
    ELSE IF exec \in {"changes_raises", "changes"} THEN Changed(data)
    ELSE data

\* len(processed_data) if isinstance(processed_data, list) else 1
RecordCount(data) == IF data.kind = "list" THEN Len(data.items) ELSE 1

\* ------------------------------------------------------------------------
\* State
\* ------------------------------------------------------------------------
VARIABLES
    now,          \* datetime.utcnow()
    ds,           \* the data source
    logs,         \* the data_refresh_logs rows of the data source, by id
    completions,  \* history: how often each row has been completed
    pc,           \* "idle", or "fetching" while fetch_data waits for its fetcher
    cur,          \* the fetch_data call in progress
    last,         \* history: the fetch_data call that ended last
    prev,         \* history: the fetch_data call that ended before it, in brief
    edits,        \* history: number of edits made
    queue,        \* the broker's queue of refresh_data_source_task messages
    workers,      \* the concurrent callers of fetch_data, by number
    route_pc,     \* where the manual refresh route stands
    attempts,     \* history: fetch attempts that succeeded and that failed,
                  \* and what the last one that succeeded fetched, and when
    widgets,      \* the widgets of the data source, all on one dashboard
    resp,         \* history: what the last web route answered
    tmp_files,    \* the scratch files that exist, by the fetch that made them
    link          \* the link fetcher: where it stands, what it has written

\* The state of the background tasks and the concurrent callers.
tasks_vars == <<queue, workers, route_pc, attempts>>

\* The widgets and the answers of the web routes.
dash_vars == <<widgets, resp>>

\* The link fetcher and its scratch files.
link_vars == <<tmp_files, link>>

\* What the single caller's fetch_data steps leave alone.
aux == <<tasks_vars, dash_vars, link_vars>>

\* The single caller and its history.
caller_vars == <<pc, cur, last, prev, edits>>

vars == <<now, ds, logs, completions, pc, cur, last, prev, edits, tasks_vars,
          dash_vars, link_vars>>

\* A fetch_data call: its arguments, the data source when it was entered
\* (pre) and when it ended (post), the number of log rows before and after,
\* the row it opened, whether a connection fetcher was invoked, what it gave
\* back or that it raised, and whether the settings were edited after it.
\* response is the document an API answered, raw what the fetcher returned,
\* exec what running the transform script did.
\* post is the DataSource object as the call left it; rolled_back tells
\* that the session was rolled back after the call raised.
\* streak is the number of record_error calls in a row since the data
\* source was last healthy with no consecutive failure (None before that),
\* streak_before its value when the call was entered.
NoCall(d) ==
    [ outcome |-> "none", force |-> FALSE, t_call |-> 0, t_ret |-> 0,
      pre |-> d, post |-> d, logs_before |-> 0, logs_after |-> 0, log |-> 0,
      fetcher |-> 0, success |-> FALSE, from_cache |-> FALSE, data |-> NoData,
      record_count |-> None, error |-> NoMessage, raised |-> FALSE,
      response |-> NoData, raw |-> NoData, exec |-> "none",
      rolled_back |-> FALSE, streak_before |-> None, streak |-> None,
      edited |-> FALSE ]

\* What is kept of the call before the last one.
Brief(c) ==
    [ outcome |-> c.outcome, force |-> c.force, fetcher |-> c.fetcher,
      success |-> c.success, data |-> c.data,
      cache_enabled |-> c.post.cache_enabled, cached_at |-> c.post.cached_at,
      edited |-> c.edited ]

\* The concurrent callers of fetch_data: web requests and task workers.
Workers == 1..MaxWorkers
IdleWorker == [pc |-> "idle"]

NoTasks ==
    /\ queue = <<>>
    /\ workers = [w \in Workers |-> IdleWorker]
    /\ route_pc = "idle"
    /\ attempts = [ok |-> 0, failed |-> 0, data |-> NoData, t |-> None]

\* No widget yet, no route called yet.
NoResponse == [route |-> "none"]
NoWidgets ==
    /\ widgets = <<>>
    /\ resp = NoResponse

\* The link fetcher at rest, no scratch file.
LinkIdle == [pc |-> "idle", fetch |-> 0, chunks |-> 0, exit |-> "none"]
NoLink ==
    /\ tmp_files = {}
    /\ link = LinkIdle

\* The data sources the create routes make when the form is left at its
\* defaults: caching on, alerts on at the default threshold, auto-refresh
\* off, no transform script (no route sets one).  Other settings are
\* reached through the edit route.
Configs ==
    { NewDataSource(st, FALSE, FALSE, TickSeconds, TRUE, TickSeconds, TRUE,
                    DefaultAlertThreshold) : st \in SourceTypes }

Init ==
    /\ now = 0
    /\ ds \in Configs
    /\ logs = <<>>
    /\ completions = <<>>
    /\ pc = "idle"
    /\ cur = NoCall(ds)
    /\ last = NoCall(ds)
    /\ prev = Brief(NoCall(ds))
    /\ edits = 0
    /\ NoTasks
    /\ NoWidgets
    /\ NoLink

\* ------------------------------------------------------------------------
\* Actions
\* ------------------------------------------------------------------------
\* The clock advances.
Tick ==
    /\ now + TickSeconds <= MaxTime
    /\ now' = now + TickSeconds
    /\ UNCHANGED <<ds, logs, completions, pc, cur, last, prev, edits, aux>>

\* The edit route saves the settings of the form.  A blank integer field
\* passes the Optional() validator and is stored as None.
edit(auto, freq, cen, ttl, aon, athr) ==
    /\ pc = "idle"
    /\ edits < MaxEdits
    /\ ds' = [ds EXCEPT !.auto_refresh = auto,
                        !.refresh_frequency = freq,
                        !.cache_enabled = cen,
                        !.cache_ttl = ttl,
                        !.alert_on_failure = aon,
                        !.alert_threshold = athr]
    /\ edits' = edits + 1
    /\ last' = [last EXCEPT !.edited = TRUE]
    /\ UNCHANGED <<now, logs, completions, pc, cur, prev, aux>>

\* The forms submitted to the edit route: the stored settings with one of
\* them changed.
Settings(d) ==
    [ auto_refresh |-> d.auto_refresh, refresh_frequency |-> d.refresh_frequency,
      cache_enabled |-> d.cache_enabled, cache_ttl |-> d.cache_ttl,
      alert_on_failure |-> d.alert_on_failure, alert_threshold |-> d.alert_threshold ]

EditForms(d) ==
    LET s == Settings(d)
    IN  ({ [s EXCEPT !.auto_refresh = v] : v \in BOOLEAN }
         \cup { [s EXCEPT !.refresh_frequency = v] : v \in RefreshFrequencies }
         \cup { [s EXCEPT !.cache_enabled = v] : v \in BOOLEAN }
         \cup { [s EXCEPT !.cache_ttl = v] : v \in CacheTtls }
         \cup { [s EXCEPT !.alert_on_failure = v] : v \in BOOLEAN }
         \cup { [s EXCEPT !.alert_threshold = v] : v \in AlertThresholds })
        \ {s}

\* fetch_data that opens the refresh-log row before it looks at the cache
fetch_data_enter_log_first(d, lg, force, t) ==
    [hit |-> ~force /\ is_cache_valid(d, t), ds |-> d,
     logs |-> start_refresh(lg, IF force THEN "manual" ELSE "auto")]

\* fetch_data up to the dispatch: the cache check, and on a miss the new
\* refresh-log row.
fetch_data_enter(d, lg, force, t) ==
    IF ~force /\ is_cache_valid(d, t)
    THEN [hit |-> TRUE, ds |-> d, logs |-> lg]
    ELSE [hit |-> FALSE, ds |-> d,
          logs |-> start_refresh(lg, IF force THEN "manual" ELSE "auto")]

\* completions, with a count of 0 for the rows lg has beyond it
Opened(lg) ==
    [i \in 1..Len(lg) |-> IF i <= Len(completions) THEN completions[i] ELSE 0]

\* A call of fetch_data; limit bounds the number of refreshes.
FetchCall(force, limit) ==
    /\ pc = "idle"
    /\ LET e == fetch_data_enter(ds, logs, force, now)
           call == [ NoCall(ds) EXCEPT !.force = force, !.t_call = now,
                                       !.logs_before = Len(logs),
                                       !.logs_after = Len(e.logs),
                                       !.streak_before = last.streak,
                                       !.streak = last.streak ]
       IN  /\ ds' = e.ds
           /\ logs' = e.logs
           /\ completions' = Opened(e.logs)
           /\ IF e.hit
              THEN /\ pc' = "idle"
                   /\ cur' = cur
                   /\ prev' = Brief(last)
                   /\ last' = [call EXCEPT !.outcome = "hit", !.t_ret = now,
                                           !.post = e.ds, !.success = TRUE,
                                           !.from_cache = TRUE,
                                           !.data = e.ds.cached_data]
              ELSE /\ Len(logs) < limit
                   /\ pc' = "fetching"
                   /\ cur' = [call EXCEPT !.log = Len(e.logs)]
                   /\ UNCHANGED <<last, prev>>
    /\ UNCHANGED <<now, edits, aux>>

\* fetch_data after its fetcher has returned data: lines 71-99.
fetch_data_success(d, lg, i, raw, exec, t) ==
    LET processed == _process_data(raw, d, exec)
        count == RecordCount(processed)
        d1 == cache_data(d, processed, t)
        d2 == record_success(d1, t, count)
    IN  [ds |-> d2, logs |-> complete_success(lg, i),
         data |-> processed, record_count |-> count]

\* An except branch that also drops the cache
fetch_data_failure_drops_cache(d, lg, i, msg, t) ==
    LET r == record_error(d, t, msg)
        d1 == [r.ds EXCEPT !.cached_data = NoData, !.cached_at = None]
    IN  IF r.raised
        THEN [ds |-> d1, logs |-> lg, raised |-> TRUE]
        ELSE [ds |-> d1, logs |-> complete_error(lg, i), raised |-> FALSE]

\* fetch_data's except branch: lines 101-117.
fetch_data_failure(d, lg, i, msg, t) ==
    LET r == record_error(d, t, msg)
    IN  IF r.raised
        THEN [ds |-> r.ds, logs |-> lg, raised |-> TRUE]
        ELSE [ds |-> r.ds, logs |-> complete_error(lg, i), raised |-> FALSE]

\* The connection fetcher returns raw data.
FetcherReturns(raw, exec) ==
    /\ pc = "fetching"
    /\ Dispatch(ds.source_type) # ""
    /\ (~ds.transform_script => exec = "no_result")
    /\ LET r == fetch_data_success(ds, logs, cur.log, raw, exec, now)
       IN  /\ ds' = r.ds
           /\ logs' = r.logs
           /\ completions' = [completions EXCEPT ![cur.log] = @ + 1]
           /\ prev' = Brief(last)
           /\ last' = [cur EXCEPT !.outcome = "ok", !.t_ret = now,
                                  !.post = r.ds, !.fetcher = 1,
                                  !.streak = IF /\ r.ds.health_status = "healthy"
                                                /\ r.ds.consecutive_failures = 0
                                             THEN 0 ELSE None,
                                  !.success = TRUE, !.from_cache = FALSE,
                                  !.data = r.data,
                                  !.raw = raw, !.exec = exec,
                                  !.record_count = r.record_count]
    /\ pc' = "idle"
    /\ cur' = NoCall(ds')
    /\ UNCHANGED <<now, edits, aux>>

\* fetch_data ends in its except branch with message msg; fetcher tells
\* whether a connection fetcher was invoked.  When record_error raises
\* inside the except branch the exception leaves fetch_data with the
\* assignments to the data source not yet committed: the caller's session
\* either commits them later (the refresh task's own handler) or is rolled
\* back (the end of a web request), which restores the row as fetch_data
\* found it.  The log row was committed by start_refresh.
FetchFails(msg, fetcher) ==
    LET r == fetch_data_failure(ds, logs, cur.log, msg, now)
    IN  \E rb \in (IF r.raised THEN BOOLEAN ELSE {FALSE}) :
        /\ ds' = IF rb THEN ds ELSE r.ds
        /\ logs' = r.logs
        /\ completions' = IF r.raised THEN completions
                          ELSE [completions EXCEPT ![cur.log] = @ + 1]
        /\ prev' = Brief(last)
        /\ last' = [cur EXCEPT !.outcome = IF r.raised THEN "raised" ELSE "fail",
                               !.raised = r.raised,
                               !.rolled_back = rb,
                               !.streak = IF @ = None \/ rb THEN @ ELSE @ + 1,
                               !.t_ret = now, !.post = r.ds,
                               !.fetcher = fetcher, !.success = FALSE,
                               !.error = msg]
        /\ pc' = "idle"
        /\ cur' = NoCall(ds')
        /\ UNCHANGED <<now, edits, aux>>

\* The connection fetcher raises.
FetcherRaises ==
    /\ pc = "fetching"
    /\ Dispatch(ds.source_type) # ""
    /\ FetchFails(FetcherError, 1)

\* The dispatch finds no fetcher for the source type and raises ValueError.
UnsupportedSourceType ==
    /\ pc = "fetching"
    /\ Dispatch(ds.source_type) = ""
    /\ FetchFails(UnsupportedError, 0)

Next ==
    \/ Tick
    \/ \E f \in EditForms(ds) :
          edit(f.auto_refresh, f.refresh_frequency, f.cache_enabled,
               f.cache_ttl, f.alert_on_failure, f.alert_threshold)
    \/ \E force \in BOOLEAN : FetchCall(force, MaxAttempts)
    \/ \E raw \in Payloads, exec \in ExecOutcomes : FetcherReturns(raw, exec)
    \/ FetcherRaises
    \/ UnsupportedSourceType

Spec == Init /\ [][Next]_vars

\* The health state machine on its own: refreshes only (every call forced),
\* the clock standing still, one kind of payload.
HealthPayloads == { [kind |-> "list", items |-> <<"r1", "r2">>] }

NextHealth ==
    \/ \E f \in EditForms(ds) :
          edit(f.auto_refresh, f.refresh_frequency, f.cache_enabled,
               f.cache_ttl, f.alert_on_failure, f.alert_threshold)
    \/ FetchCall(TRUE, MaxHealthAttempts)
    \/ \E raw \in HealthPayloads : FetcherReturns(raw, "no_result")
    \/ FetcherRaises
    \/ UnsupportedSourceType

SpecHealth == Init /\ [][NextHealth]_vars

\* ------------------------------------------------------------------------
\* Background tasks and concurrent callers
\* ------------------------------------------------------------------------
\* Each caller of fetch_data works on its own session.  The DataSource
\* object is loaded when the dispatch reads source_type, right after
\* start_refresh has committed (snap); the bookkeeping after the fetcher is
\* computed on that object, and the commit in complete_success /
\* complete_error writes back the columns whose value changed.
Flush(row, snap, obj) ==
    [f \in DOMAIN row |-> IF obj[f] # snap[f] THEN obj[f] ELSE row[f]]

\* refresh_data_source_task after fetch_data came back: lines 60-82.
task_after_success(d) == [d EXCEPT !.error_count = 0]
task_after_failure(d) == [d EXCEPT !.error_count = @ + 1]

\* What refresh_data_source_task.delay(ds.id, force_refresh=True) does with
\* a keyword the task does not take: the call is refused with a TypeError,
\* or the message is queued and the worker fails when it runs it.
DelayOutcomes == {"TypeError", "queued"}

\* The data sources of the task runs: fetched over the API, default
\* settings, auto-refresh on or off.
TaskConfigs ==
    { NewDataSource("api", FALSE, auto, TickSeconds, TRUE, TickSeconds, TRUE,
                    DefaultAlertThreshold) : auto \in BOOLEAN }

InitTasks ==
    /\ now = 0
    /\ ds \in TaskConfigs
    /\ logs = <<>>
    /\ completions = <<>>
    /\ pc = "idle"
    /\ cur = NoCall(ds)
    /\ last = NoCall(ds)
    /\ prev = Brief(NoCall(ds))
    /\ edits = 0
    /\ NoTasks
    /\ NoWidgets
    /\ NoLink

\* The manual refresh route up to its first commit: it declines when the
\* flag is set, else sets it.
refresh ==
    /\ route_pc = "idle"
    /\ IF ds.refresh_in_progress
       THEN UNCHANGED <<ds, route_pc>>
       ELSE /\ ds' = [ds EXCEPT !.refresh_in_progress = TRUE]
            /\ route_pc' = "marked"
    /\ UNCHANGED <<now, logs, completions, caller_vars, queue, workers, attempts,
                   dash_vars, link_vars>>

\* The manual refresh route queues the task, or clears the flag in its
\* except branch.
refresh_delay(outcome) ==
    /\ route_pc = "marked"
    /\ route_pc' = "idle"
    /\ IF outcome = "queued"
       THEN /\ Len(queue) < MaxQueue
            /\ queue' = Append(queue, "manual")
            /\ UNCHANGED ds
       ELSE /\ ds' = [ds EXCEPT !.refresh_in_progress = FALSE]
            /\ UNCHANGED queue
    /\ UNCHANGED <<now, logs, completions, caller_vars, workers, attempts,
                   dash_vars, link_vars>>

\* The scheduled task queues a refresh of every active auto-refresh source.
refresh_all_data_sources_task ==
    /\ ds.is_active /\ ds.auto_refresh
    /\ Len(queue) < MaxQueue
    /\ queue' = Append(queue, "scheduled")
    /\ UNCHANGED <<now, ds, logs, completions, caller_vars, workers, route_pc,
                   attempts, dash_vars, link_vars>>

\* A caller enters fetch_data and misses the cache: the log row is opened
\* and committed, the data source is loaded.
Enters(w, kind, force, limit) ==
    LET e == fetch_data_enter(ds, logs, force, now)
    IN  /\ ~e.hit
        /\ Len(logs) < limit
        /\ logs' = e.logs
        /\ completions' = Opened(e.logs)
        /\ workers' = [workers EXCEPT ![w] =
              [pc |-> "fetching", kind |-> kind, log |-> Len(e.logs),
               snap |-> e.ds]]

\* A worker takes the next message.  A message of the manual route carries
\* the keyword the task does not take: the run fails before its body.
refresh_data_source_task(w) ==
    /\ workers[w].pc = "idle"
    /\ queue # <<>>
    /\ queue' = Tail(queue)
    /\ IF Head(queue) = "manual"
       THEN UNCHANGED <<logs, completions, workers>>
       ELSE Enters(w, "task", TRUE, MaxTaskFetches)
    /\ UNCHANGED <<now, ds, caller_vars, route_pc, attempts, dash_vars, link_vars>>

\* A web request calls fetch_data: test connection and schema inference
\* with force_refresh, preview and widgets without.
RequestFetches(w, force, limit) ==
    /\ workers[w].pc = "idle"
    /\ Enters(w, "request", force, limit)
    /\ UNCHANGED <<now, ds, caller_vars, queue, route_pc, attempts, dash_vars,
                   link_vars>>

\* The fetcher of caller w returns.
WorkerFetcherReturns(w, raw) ==
    /\ workers[w].pc = "fetching"
    /\ LET me == workers[w]
           r == fetch_data_success(me.snap, logs, me.log, raw, "no_result", now)
           row == Flush(ds, me.snap, r.ds)
       IN  /\ ds' = IF me.kind = "task" THEN task_after_success(row) ELSE row
           /\ logs' = r.logs
           /\ completions' = [completions EXCEPT ![me.log] = @ + 1]
    /\ workers' = [workers EXCEPT ![w] = IdleWorker]
    /\ attempts' = [attempts EXCEPT !.ok = @ + 1, !.data = raw, !.t = now]
    /\ UNCHANGED <<now, caller_vars, queue, route_pc, dash_vars, link_vars>>

\* The fetcher of caller w raises.  If record_error raises in turn, the
\* caller's session is discarded with what was not committed.
WorkerFetcherRaises(w) ==
    /\ workers[w].pc = "fetching"
    /\ LET me == workers[w]
           r == fetch_data_failure(me.snap, logs, me.log, FetcherError, now)
           row == Flush(ds, me.snap, r.ds)
       IN  IF r.raised
           THEN UNCHANGED <<ds, logs, completions>>
           ELSE /\ ds' = IF me.kind = "task" THEN task_after_failure(row)
                         ELSE row
                /\ logs' = r.logs
                /\ completions' = [completions EXCEPT ![me.log] = @ + 1]
    /\ workers' = [workers EXCEPT ![w] = IdleWorker]
    /\ attempts' = [attempts EXCEPT !.failed = @ + 1]
    /\ UNCHANGED <<now, caller_vars, queue, route_pc, dash_vars, link_vars>>

NextTasks ==
    \/ Tick
    \/ refresh
    \/ \E outcome \in DelayOutcomes : refresh_delay(outcome)
    \/ refresh_all_data_sources_task
    \/ \E w \in Workers : refresh_data_source_task(w)
    \/ \E w \in Workers, force \in BOOLEAN :
          RequestFetches(w, force, MaxTaskFetches)
    \/ \E w \in Workers, raw \in HealthPayloads : WorkerFetcherReturns(w, raw)
    \/ \E w \in Workers : WorkerFetcherRaises(w)

SpecTasks == InitTasks /\ [][NextTasks]_vars

\* The same with a task worker that runs every queued task, a refresh
\* route that runs to its end and fetchers that come back.  Web requests
\* and the scheduler are not obliged to happen.
SpecTasksFair ==
    /\ SpecTasks
    /\ WF_vars(\E outcome \in DelayOutcomes : refresh_delay(outcome))
    /\ WF_vars(\E w \in Workers : refresh_data_source_task(w))
    /\ WF_vars(\E w \in Workers :
                  \/ \E raw \in HealthPayloads : WorkerFetcherReturns(w, raw)
                  \/ WorkerFetcherRaises(w))

\* ------------------------------------------------------------------------
\* Widgets, dashboards and the delete route
\* ------------------------------------------------------------------------
\* WidgetType: one type processed with pandas, one passed through.
WidgetTypes == {"stat_card", "list"}

\* The names bound at module level in services/widget_processor.py.  The
\* file defines the class and has no import statement.
ModuleNames == {"WidgetProcessor"}

\* WidgetProcessor.process_widget.  fetch_ok is what fetch_data would
\* answer.  Looking up a name that is not bound raises NameError; in the
\* try block it is caught by the except branch, in the except branch
\* (current_app.logger.error) it leaves process_widget.
process_widget(widget, fetch_ok) ==
    LET body ==
          IF "DataFetcher" \notin ModuleNames THEN "NameError"
          ELSE IF ~fetch_ok THEN "fetch failed"
          ELSE IF widget.widget_type = "stat_card" /\ "pd" \notin ModuleNames
               THEN "NameError"
          ELSE "ok"
    IN  CASE body = "ok" ->
               [raised |-> FALSE, success |-> TRUE, error |-> "None"]
          [] body = "fetch failed" ->
               [raised |-> FALSE, success |-> FALSE, error |-> body]
          [] OTHER ->
               IF "current_app" \notin ModuleNames
               THEN [raised |-> TRUE, success |-> FALSE, error |-> "NameError"]
               ELSE [raised |-> FALSE, success |-> FALSE, error |-> body]

\* How processing one widget ended for the route that called it.
Outcome(r) ==
    IF r.raised THEN "raised" ELSE IF r.success THEN "ok" ELSE "failed"

\* The first widget whose processing raised, 0 if none did.
FirstRaised(rs) ==
    IF \E i \in 1..Len(rs) : rs[i] = "raised"
    THEN CHOOSE i \in 1..Len(rs) :
            /\ rs[i] = "raised"
            /\ \A j \in 1..(i - 1) : rs[j] # "raised"
    ELSE 0

\* The positions of the widgets that were processed with success.
Included(rs) ==
    LET idx == [i \in 1..Len(rs) |-> i]
    IN  SelectSeq(idx, LAMBDA i : rs[i] = "ok")

\* widget_count that looks at the first widget only
widget_count_first(ws) ==
    IF ws # <<>> /\ ws[1].is_active THEN 1 ELSE 0

\* DataSource.widget_count as the delete route computes it.
widget_count(ws) == Cardinality({i \in 1..Len(ws) : ws[i].is_active})

\* The widget create route: the data source is chosen among the active.
create_widget(active, wtype) ==
    /\ ds.is_active
    /\ Len(widgets) < MaxWidgets
    /\ widgets' = Append(widgets, [is_active |-> active, widget_type |-> wtype])
    /\ UNCHANGED <<now, ds, logs, completions, caller_vars, tasks_vars, resp,
                   link_vars>>

\* The widget delete route.
delete_widget(i) ==
    /\ i \in 1..Len(widgets)
    /\ widgets' = SubSeq(widgets, 1, i - 1) \o SubSeq(widgets, i + 1, Len(widgets))
    /\ UNCHANGED <<now, ds, logs, completions, caller_vars, tasks_vars, resp,
                   link_vars>>

\* The data-source delete route.
delete ==
    /\ IF widget_count(widgets) > 0
       THEN /\ resp' = [route |-> "delete", status |-> "refused"]
            /\ UNCHANGED ds
       ELSE /\ ds' = [ds EXCEPT !.deleted_at = now, !.is_active = FALSE]
            /\ resp' = [route |-> "delete", status |-> "deleted"]
    /\ UNCHANGED <<now, logs, completions, caller_vars, tasks_vars, widgets,
                   link_vars>>

\* The dashboard view: each widget is processed inside its own try.
view(fetch_ok) ==
    LET rs == [i \in 1..Len(widgets) |->
                  Outcome(process_widget(widgets[i], fetch_ok[i]))]
    IN  /\ resp' = [route |-> "view", status |-> 200, n |-> Len(widgets),
                    results |-> rs, included |-> Included(rs)]
        /\ UNCHANGED <<now, ds, logs, completions, caller_vars, tasks_vars,
                       widgets, link_vars>>

\* The dashboard data API: one try around the whole loop.
dashboard_data(fetch_ok) ==
    LET rs == [i \in 1..Len(widgets) |->
                  Outcome(process_widget(widgets[i], fetch_ok[i]))]
        k == FirstRaised(rs)
    IN  /\ resp' = IF k = 0
                   THEN [route |-> "dashboard_data", status |-> 200,
                         n |-> Len(widgets), results |-> rs,
                         included |-> Included(rs)]
                   ELSE [route |-> "dashboard_data", status |-> 500,
                         n |-> Len(widgets), results |-> SubSeq(rs, 1, k),
                         included |-> <<>>]
        /\ UNCHANGED <<now, ds, logs, completions, caller_vars, tasks_vars,
                       widgets, link_vars>>

NextDash ==
    \/ Tick
    \/ \E active \in BOOLEAN, wtype \in WidgetTypes : create_widget(active, wtype)
    \/ \E i \in 1..MaxWidgets : delete_widget(i)
    \/ delete
    \/ \E fetch_ok \in [1..Len(widgets) -> BOOLEAN] : view(fetch_ok)
    \/ \E fetch_ok \in [1..Len(widgets) -> BOOLEAN] : dashboard_data(fetch_ok)

SpecDash == Init /\ [][NextDash]_vars

\* ------------------------------------------------------------------------
\* The API fetcher: data path and transform script
\* ------------------------------------------------------------------------
\* Parsed responses: a list of records, and a mapping that wraps one.
RecordList == [kind |-> "list", items |-> <<"r1", "r2">>]
Wrapped ==
    [kind |-> "dict", items |-> <<"data", "status">>,
     sub |-> [data |-> RecordList,
              status |-> [kind |-> "str", items |-> <<"ok">>]]]
Documents == {RecordList, Wrapped}

\* data_path after strip('$.').split('.'); <<>> when the column is empty.
DataPaths ==
    { <<"data">>, <<"data", "0">>, <<"data", "5">>, <<"results">>,
      <<"results", "0">>, <<"status", "code">> }

\* part.isdigit() and int(part)
isdigit(part) == part \in {"0", "5"}
int(part) == IF part = "0" THEN 0 ELSE 5

\* dict.get(part): the value, None when the key is absent.
get(d, part) ==
    IF "sub" \in DOMAIN d /\ part \in DOMAIN d.sub THEN d.sub[part] ELSE NoData

\* A record of a list, as a mapping.
Row(x) == [kind |-> "dict", items |-> <<x>>]

\* DataFetcher._extract_data_path: the loop over the parts.
RECURSIVE _extract_data_path(_, _)
_extract_data_path(result, parts) ==
    IF parts = <<>> THEN [raised |-> FALSE, data |-> result]
    ELSE LET part == Head(parts)
         IN  IF result.kind = "dict"
             THEN LET value == get(result, part)
                  IN  IF value = NoData
                      THEN [raised |-> FALSE, data |-> NoData]
                      ELSE _extract_data_path(value, Tail(parts))
             ELSE IF result.kind = "list" /\ isdigit(part)
             THEN IF int(part) < Len(result.items)
                  THEN _extract_data_path(Row(result.items[int(part) + 1]),
                                          Tail(parts))
                  ELSE [raised |-> TRUE, data |-> NoData]
             ELSE [raised |-> TRUE, data |-> NoData]

PathError == [id |-> "Error extracting data path", len |-> 60]

\* Data sources fetched over the API, with or without a data path and a
\* transform script.
ApiConfigs ==
    { [NewDataSource("api", script, FALSE, TickSeconds, TRUE, TickSeconds,
                     TRUE, DefaultAlertThreshold) EXCEPT !.data_path = path] :
         script \in BOOLEAN, path \in DataPaths \cup {<<>>} }

InitApi ==
    /\ now = 0
    /\ ds \in ApiConfigs
    /\ logs = <<>>
    /\ completions = <<>>
    /\ pc = "idle"
    /\ cur = NoCall(ds)
    /\ last = NoCall(ds)
    /\ prev = Brief(NoCall(ds))
    /\ edits = 0
    /\ NoTasks
    /\ NoWidgets
    /\ NoLink

\* _fetch_from_api: the request has come back with a response that parses.
ApiResponse(doc) ==
    /\ pc = "fetching"
    /\ ds.source_type = "api"
    /\ cur.response = NoData
    /\ cur' = [cur EXCEPT !.response = doc]
    /\ UNCHANGED <<now, ds, logs, completions, pc, last, prev, edits, aux>>

\* _fetch_from_api extracts the data path if there is one and returns, and
\* fetch_data goes on from there.
ApiParsed(exec) ==
    /\ pc = "fetching"
    /\ cur.response # NoData
    /\ LET x == IF ds.data_path = <<>>
                THEN [raised |-> FALSE, data |-> cur.response]
                ELSE _extract_data_path(cur.response, ds.data_path)
       IN  IF x.raised
           THEN FetchFails(PathError, 1)
           ELSE FetcherReturns(x.data, exec)

NextApi ==
    \/ Tick
    \/ \E force \in BOOLEAN : FetchCall(force, MaxAttempts)
    \/ \E doc \in Documents : ApiResponse(doc)
    \/ \E exec \in ExecOutcomes : ApiParsed(exec)
    \/ FetcherRaises

SpecApi == InitApi /\ [][NextApi]_vars

\* ------------------------------------------------------------------------
\* The health route
\* ------------------------------------------------------------------------
\* A fetch that ends in record_success, one that ends in record_error, and
\* the health route reading success_rate.  counted is the pair of counters
\* the route read.
RecordsSuccess ==
    /\ ds.success_count < MaxCount
    /\ ds' = record_success(ds, now, None)
    /\ UNCHANGED <<now, logs, completions, caller_vars, aux>>

RecordsError ==
    /\ ds.error_count < MaxCount
    /\ ds' = record_error(ds, now, FetcherError).ds
    /\ UNCHANGED <<now, logs, completions, caller_vars, aux>>

health_status_route ==
    /\ resp' = [route |-> "health", success_rate |-> success_rate(ds),
                counted |-> <<ds.success_count, ds.error_count>>]
    /\ UNCHANGED <<now, ds, logs, completions, caller_vars, tasks_vars,
                   widgets, link_vars>>

NextRate ==
    \/ RecordsSuccess
    \/ RecordsError
    \/ health_status_route

SpecRate == Init /\ [][NextRate]_vars

\* ------------------------------------------------------------------------
\* The link fetcher
\* ------------------------------------------------------------------------
\* link.fetch numbers the calls of _fetch_from_link, link.chunks counts the
\* chunks written, link.exit tells how the last call ended: "download" and
\* "write" and "read" for an exception raised while downloading, while
\* writing chunks or while reading the file, "returned" for a result.
InitLink ==
    /\ Init
    /\ ds.source_type = "link"

\* The call is entered: the headers are built.
_fetch_from_link ==
    /\ link.pc = "idle"
    /\ link.fetch < MaxLinkFetches
    /\ link' = [pc |-> "get", fetch |-> link.fetch + 1, chunks |-> 0,
                exit |-> "none"]
    /\ UNCHANGED <<now, ds, logs, completions, caller_vars, tasks_vars,
                   dash_vars, tmp_files>>

\* requests.get and raise_for_status: a response, or an exception that the
\* outer except re-raises.
requests_get(ok) ==
    /\ link.pc = "get"
    /\ link' = IF ok THEN [link EXCEPT !.pc = "open"]
               ELSE [link EXCEPT !.pc = "idle", !.exit = "download"]
    /\ UNCHANGED <<now, ds, logs, completions, caller_vars, tasks_vars,
                   dash_vars, tmp_files>>

\* tempfile.NamedTemporaryFile(delete=False): the scratch file exists.
NamedTemporaryFile ==
    /\ link.pc = "open"
    /\ tmp_files' = tmp_files \cup {link.fetch}
    /\ link' = [link EXCEPT !.pc = "write"]
    /\ UNCHANGED <<now, ds, logs, completions, caller_vars, tasks_vars,
                   dash_vars>>

\* One turn of the chunk loop.  When iter_content or tmp.write raises, the
\* with block closes the file, which delete=False keeps, and the outer
\* except re-raises: the try whose finally unlinks was never entered.
write(ok) ==
    /\ link.pc = "write"
    /\ link.chunks < MaxChunks
    /\ link' = IF ok THEN [link EXCEPT !.chunks = @ + 1]
               ELSE [link EXCEPT !.pc = "idle", !.exit = "write"]
    /\ UNCHANGED <<now, ds, logs, completions, caller_vars, tasks_vars,
                   dash_vars, tmp_files>>

\* The download is exhausted: tmp_path is bound, the with block is left.
iter_content_ends ==
    /\ link.pc = "write"
    /\ link' = [link EXCEPT !.pc = "read"]
    /\ UNCHANGED <<now, ds, logs, completions, caller_vars, tasks_vars,
                   dash_vars, tmp_files>>

\* _read_file inside try/finally: the file is unlinked whether it returns
\* or raises.
_read_file(ok) ==
    /\ link.pc = "read"
    /\ tmp_files' = tmp_files \ {link.fetch}
    /\ link' = [link EXCEPT !.pc = "idle",
                            !.exit = IF ok THEN "returned" ELSE "read"]
    /\ UNCHANGED <<now, ds, logs, completions, caller_vars, tasks_vars,
                   dash_vars>>

NextLink ==
    \/ _fetch_from_link
    \/ \E ok \in BOOLEAN : requests_get(ok)
    \/ NamedTemporaryFile
    \/ \E ok \in BOOLEAN : write(ok)
    \/ iter_content_ends
    \/ \E ok \in BOOLEAN : _read_file(ok)

SpecLink == InitLink /\ [][NextLink]_vars

\* ------------------------------------------------------------------------
\* The table widget
\* ------------------------------------------------------------------------
\* The default of `widget.limit or 100`.
DefaultLimit == 100

\* Records with one numeric field, as a sequence of its values.
RECURSIVE SeqsUpTo(_, _)
SeqsUpTo(S, n) ==
    IF n = 0 THEN {<<>>}
    ELSE LET shorter == SeqsUpTo(S, n - 1)
         IN  shorter \cup {Append(q, x) : q \in shorter, x \in S}

TableRows == SeqsUpTo(1..MaxValue, MaxRows)
TableLimits == {None} \cup (1..(MaxRows - 1))

\* The filters a caller passes: none, or one greater_than filter.
TableFilters ==
    {<<>>} \cup {<<[operator |-> "greater_than", value |-> v]>> : v \in 0..MaxValue}

\* WidgetProcessor._apply_filters
_apply_filters(df, filters) ==
    IF filters = <<>> THEN df
    ELSE SelectSeq(df, LAMBDA x : x > filters[1].value)

\* df.head(limit)
head(df, limit) == SubSeq(df, 1, Min(limit, Len(df)))

\* WidgetProcessor._process_table.  Its first statement looks up pd, which
\* services/widget_processor.py does not bind: NameError.  With pd bound the
\* frame is filtered, cut to the limit, and total_rows is the length of
\* what is left after the cut.
_process_table(widget, data, filters) ==
    IF "pd" \notin ModuleNames
    THEN [raised |-> TRUE, rows |-> <<>>, total_rows |-> None]
    ELSE LET df1 == IF filters # <<>> THEN _apply_filters(data, filters)
                    ELSE data
             limit == IF widget.limit = None \/ widget.limit = 0
                      THEN DefaultLimit ELSE widget.limit
             df2 == head(df1, limit)
         IN  [raised |-> FALSE, rows |-> df2, total_rows |-> Len(df2)]

\* One table widget on a data source whose cache holds the rows.
InitTable ==
    /\ now = 0
    /\ \E d \in Configs, rows \in TableRows :
          /\ d.source_type = "api"
          /\ ds = [d EXCEPT !.cached_data = [kind |-> "list", items |-> rows],
                            !.cached_at = 0]
    /\ logs = <<>>
    /\ completions = <<>>
    /\ pc = "idle"
    /\ cur = NoCall(ds)
    /\ last = NoCall(ds)
    /\ prev = Brief(NoCall(ds))
    /\ edits = 0
    /\ NoTasks
    /\ \E l \in TableLimits :
          widgets = <<[is_active |-> TRUE, widget_type |-> "table", limit |-> l]>>
    /\ resp = NoResponse
    /\ NoLink

\* The table widget is processed.  passed is the number of rows the filters
\* let through, limit the widget's limit.
process_table(filters) ==
    LET r == _process_table(widgets[1], ds.cached_data.items, filters)
    IN  /\ resp' = [route |-> "table", raised |-> r.raised, rows |-> r.rows,
                    total_rows |-> r.total_rows,
                    passed |-> Len(_apply_filters(ds.cached_data.items, filters)),
                    limit |-> widgets[1].limit]
        /\ UNCHANGED <<now, ds, logs, completions, caller_vars, tasks_vars,
                       widgets, link_vars>>

NextTable == \E filters \in TableFilters : process_table(filters)

SpecTable == InitTable /\ [][NextTable]_vars

\* ------------------------------------------------------------------------
\* Format detection
\* ------------------------------------------------------------------------
\* DataFormat, and the absence of a format (Python None).
DataFormats == {"JSON", "CSV", "XML", "EXCEL", "PARQUET", "PDF", "DOCX", "TXT", "HTML"}
NoFormat == "none"

\* The choices of the upload form's data_format field, upper-cased.
DeclaredFormats == {"AUTO"} \cup DataFormats

\* The extensions FileAllowed lets through, and two it does not.
AllowedExtensions ==
    {".json", ".csv", ".xml", ".xlsx", ".xls", ".parquet", ".pdf", ".docx",
     ".txt", ".html"}
Extensions == AllowedExtensions \cup {".dat", ".htm"}

\* What the first 8 bytes of a file start with or hold.
Headers == {"PK", "%PDF", "<", "{", ",", "other"}
Files == [ext : Extensions, header : Headers]

\* The MIME registry of the environment: the table of the standard
\* library, or one in which an installed spreadsheet program has claimed
\* .csv.
Registries == {"stdlib", "spreadsheet"}
NoMime == "none"

\* mimetypes.guess_type
guess_type(ext, registry) ==
    CASE ext = ".json" -> "application/json"
      [] ext = ".csv"  -> IF registry = "spreadsheet"
                          THEN "application/vnd.ms-excel" ELSE "text/csv"
      [] ext = ".xml"  -> "application/xml"
      [] ext = ".xlsx" -> "application/vnd.openxmlformats-officedocument.spreadsheetml.sheet"
      [] ext = ".xls"  -> "application/vnd.ms-excel"
      [] ext = ".pdf"  -> "application/pdf"
      [] ext = ".docx" -> "application/vnd.openxmlformats-officedocument.wordprocessingml.document"
      [] ext = ".txt"  -> "text/plain"
      [] ext \in {".html", ".htm"} -> "text/html"
      [] OTHER -> NoMime

\* mime_mapping.get(mime_type)
mime_mapping(mime) ==
    CASE mime = "application/json" -> "JSON"
      [] mime = "text/csv" -> "CSV"
      [] mime = "application/vnd.ms-excel" -> "EXCEL"
      [] mime = "application/vnd.openxmlformats-officedocument.spreadsheetml.sheet" -> "EXCEL"
      [] mime \in {"application/xml", "text/xml"} -> "XML"
      [] mime = "application/pdf" -> "PDF"
      [] mime = "application/vnd.openxmlformats-officedocument.wordprocessingml.document" -> "DOCX"
      [] mime = "text/plain" -> "TXT"
      [] mime = "text/html" -> "HTML"
      [] OTHER -> NoFormat

\* ext_mapping.get(ext)
ext_mapping(ext) ==
    CASE ext = ".json" -> "JSON"
      [] ext = ".csv" -> "CSV"
      [] ext \in {".xlsx", ".xls"} -> "EXCEL"
      [] ext = ".xml" -> "XML"
      [] ext = ".parquet" -> "PARQUET"
      [] ext = ".pdf" -> "PDF"
      [] ext = ".docx" -> "DOCX"
      [] ext = ".txt" -> "TXT"
      [] ext \in {".html", ".htm"} -> "HTML"
      [] OTHER -> NoFormat

\* DataSource._detect_by_signature
_detect_by_signature(file) ==
    CASE file.header = "PK" ->
             IF file.ext \in {".xlsx", ".xls"} THEN "EXCEL"
             ELSE IF file.ext = ".docx" THEN "DOCX"
             ELSE IF file.ext = ".parquet" THEN "PARQUET"
             ELSE NoFormat
      [] file.header = "%PDF" -> "PDF"
      [] file.header = "<" -> "XML"
      [] file.header = "{" -> "JSON"
      [] file.header = "," -> "CSV"
      [] OTHER -> NoFormat

\* Detection that asks the extension mapping before the MIME registry
detect_format_extension_first(file, registry) ==
    LET by_ext == ext_mapping(file.ext)
        by_mime == mime_mapping(guess_type(file.ext, registry))
    IN  IF by_ext # NoFormat THEN by_ext
        ELSE IF by_mime # NoFormat THEN by_mime
        ELSE _detect_by_signature(file)

\* DataSource.detect_format_from_file: the detected format
detect_format_from_file(file, registry) ==
    LET mime_type == guess_type(file.ext, registry)
        detected1 == IF mime_type # NoMime THEN mime_mapping(mime_type)
                     ELSE NoFormat
        detected2 == IF detected1 = NoFormat THEN ext_mapping(file.ext)
                     ELSE detected1
    IN  IF detected2 = NoFormat THEN _detect_by_signature(file)
        ELSE detected2

\* The detection applied to a file at any path.
detect(file, registry) ==
    /\ resp' = [route |-> "detect", file |-> file, registry |-> registry,
                detected |-> detect_format_from_file(file, registry)]
    /\ UNCHANGED <<now, ds, logs, completions, caller_vars, tasks_vars,
                   widgets, link_vars>>

\* The upload create route: the format of the new data source.
create_upload(declared, file, registry) ==
    /\ file.ext \in AllowedExtensions
    /\ LET detected == detect_format_from_file(file, registry)
       IN  resp' = [route |-> "create_upload", declared |-> declared,
                    file |-> file, registry |-> registry,
                    detected |-> IF declared = "AUTO" THEN detected
                                 ELSE NoFormat,
                    data_format |->
                        IF declared = "AUTO"
                        THEN IF detected # NoFormat THEN detected ELSE "JSON"
                        ELSE declared]
    /\ UNCHANGED <<now, ds, logs, completions, caller_vars, tasks_vars,
                   widgets, link_vars>>

NextFormat ==
    \/ \E file \in Files, registry \in Registries : detect(file, registry)
    \/ \E declared \in DeclaredFormats, file \in Files, registry \in Registries :
          create_upload(declared, file, registry)

\* An upload data source is being made.
InitFormat ==
    /\ Init
    /\ ds.source_type = "upload"

SpecFormat == InitFormat /\ [][NextFormat]_vars

\* ------------------------------------------------------------------------
\* Scheduling of the next refresh
\* ------------------------------------------------------------------------
\* API data sources as the create form makes them, with and without
\* auto-refresh and a refresh frequency; then fetches that end in
\* record_success or record_error, and the clock.
RetryConfigs ==
    { NewDataSource("api", FALSE, auto, freq, TRUE, TickSeconds, TRUE,
                    DefaultAlertThreshold) :
        auto \in BOOLEAN, freq \in RefreshFrequencies }

InitRetry ==
    /\ now = 0
    /\ ds \in RetryConfigs
    /\ logs = <<>>
    /\ completions = <<>>
    /\ pc = "idle"
    /\ cur = NoCall(ds)
    /\ last = NoCall(ds)
    /\ prev = Brief(NoCall(ds))
    /\ edits = 0
    /\ NoTasks
    /\ NoWidgets
    /\ NoLink

NextRetry ==
    \/ Tick
    \/ RecordsSuccess
    \/ RecordsError

SpecRetry == InitRetry /\ [][NextRetry]_vars

\* ------------------------------------------------------------------------
\* The alert cooldown
\* ------------------------------------------------------------------------
\* API data sources as the create form makes them, with alerts on or off
\* and an alert threshold; then fetches that end in record_success or
\* record_error, half an hour or more apart.
AlertConfigs ==
    { NewDataSource("api", FALSE, FALSE, TickSeconds, TRUE, TickSeconds, aon,
                    athr) :
        aon \in BOOLEAN, athr \in AlertThresholds \ {None} }

InitAlert ==
    /\ now = 0
    /\ ds \in AlertConfigs
    /\ logs = <<>>
    /\ completions = <<>>
    /\ pc = "idle"
    /\ cur = NoCall(ds)
    /\ last = NoCall(ds)
    /\ prev = Brief(NoCall(ds))
    /\ edits = 0
    /\ NoTasks
    /\ NoWidgets
    /\ NoLink

\* Half an hour passes.
Wait ==
    /\ now + AlertTick <= MaxAlertTime
    /\ now' = now + AlertTick
    /\ UNCHANGED <<ds, logs, completions, caller_vars, aux>>

NextAlert ==
    \/ Wait
    \/ RecordsSuccess
    \/ RecordsError

SpecAlert == InitAlert /\ [][NextAlert]_vars

\* ------------------------------------------------------------------------
\* Concurrent refreshes and the cache
\* ------------------------------------------------------------------------
\* Web requests refreshing the same data source, each in its own session,
\* the source answering with one of two payloads.
NextCache ==
    \/ Tick
    \/ \E w \in Workers, force \in BOOLEAN :
          RequestFetches(w, force, MaxCacheFetches)
    \/ \E w \in Workers, raw \in Payloads : WorkerFetcherReturns(w, raw)
    \/ \E w \in Workers : WorkerFetcherRaises(w)

SpecCache == InitTasks /\ [][NextCache]_vars

TypeOK ==
    /\ now \in 0..(MaxTime + TickSeconds)
    /\ pc \in {"idle", "fetching"}
    /\ Len(completions) = Len(logs)

\* ------------------------------------------------------------------------
\* Properties
\* ------------------------------------------------------------------------
Ended == last.outcome # "none"
Failed == last.outcome \in {"fail", "raised"}
Refreshed == Ended /\ last.success /\ ~last.from_cache

\* The columns a cache hit must leave alone.
Bookkeeping(d) ==
    <<d.success_count, d.error_count, d.consecutive_failures, d.health_status,
      d.last_refresh, d.cached_data, d.cached_at>>

\* C1: a call with force_refresh false on a data source whose cache is valid
\* returns the cached payload with from_cache true, invokes no connection
\* fetcher, creates no refresh-log row and leaves the counters, the health
\* status, last_refresh and the cache as they were.
C1_CacheHitNoSideEffects ==
    (Ended /\ ~last.force /\ is_cache_valid(last.pre, last.t_call)) =>
        /\ last.success /\ last.from_cache
        /\ last.data = last.pre.cached_data
        /\ last.fetcher = 0
        /\ last.logs_after = last.logs_before
        /\ Bookkeeping(last.post) = Bookkeeping(last.pre)

C1_Witness ==
    /\ Ended /\ ~last.force /\ is_cache_valid(last.pre, last.t_call)
    /\ last.pre.success_count > 0
    /\ last.t_call > last.pre.cached_at

\* C2: two calls with force_refresh false, one after the other, on a
\* cache-enabled data source, the second made inside the TTL window of the
\* cache as the first left it: the two invoke a connection fetcher at most
\* once, and the second returns from_cache true with the data the first
\* returned.
C2_SameWindow ==
    /\ prev.outcome # "none" /\ ~prev.force /\ ~last.force
    /\ prev.cache_enabled /\ ~prev.edited
    /\ prev.cached_at # None
    /\ last.t_call < prev.cached_at + last.pre.cache_ttl

C2_IdempotentCacheHit ==
    C2_SameWindow =>
        /\ prev.fetcher + last.fetcher <= 1
        /\ last.from_cache
        /\ last.data = prev.data

C2_Witness ==
    /\ C2_SameWindow
    /\ prev.fetcher = 1
    /\ last.t_call > prev.cached_at

C5_HealthEscalation ==
    /\ (Failed /\ ~last.rolled_back /\ last.streak = 3) =>
           last.post.health_status = "degraded"
    /\ (Failed /\ ~last.rolled_back /\ last.streak = 5) =>
           last.post.health_status = "down"
    /\ (last.outcome = "ok" /\ last.streak_before = 5) =>
           /\ last.post.consecutive_failures = 0
           /\ last.post.health_status = "healthy"

C5_Witness == last.outcome = "ok" /\ last.streak_before = 5

\* C6: after record_error the status is down if consecutive_failures >= 5,
\* else degraded if consecutive_failures >= 3 or success_rate < 80, else
\* what it was before the call; the counts are those after the increment.
C6_RecordErrorRule ==
    Failed =>
        /\ last.post.error_count = last.pre.error_count + 1
        /\ last.post.consecutive_failures = last.pre.consecutive_failures + 1
        /\ last.post.health_status =
              IF last.post.consecutive_failures >= 5 THEN "down"
              ELSE IF \/ last.post.consecutive_failures >= 3
                      \/ success_rate(last.post) < 8000
                   THEN "degraded"
              ELSE last.pre.health_status

C6_Witness ==
    /\ Failed
    /\ last.pre.health_status = "healthy"
    /\ last.post.health_status = "healthy"

\* C7: record_success, from any health status and any number of
\* consecutive failures, sets consecutive_failures to 0, the status to
\* healthy and last_refresh_status to success, clears last_error_message,
\* adds one to success_count and leaves error_count alone.
C7_RecordSuccessRecovers ==
    last.outcome = "ok" =>
        /\ last.post.consecutive_failures = 0
        /\ last.post.health_status = "healthy"
        /\ last.post.last_refresh_status = "success"
        /\ last.post.last_error_message = NoMessage
        /\ last.post.success_count = last.pre.success_count + 1
        /\ last.post.error_count = last.pre.error_count

C7_Witness ==
    /\ last.outcome = "ok"
    /\ last.pre.health_status = "down"
    /\ last.pre.last_error_message # NoMessage

\* C8: whenever fetch_data ends in its except branch (a connection fetcher
\* raised, or there is no fetcher for the source type) it does not raise:
\* it returns success false with an error message, record_error has been
\* applied once, and the refresh-log row it opened has status error.
C8_FailuresNeverEscape ==
    Failed =>
        /\ ~last.raised
        /\ ~last.success
        /\ last.error # NoMessage
        /\ last.post.error_count = last.pre.error_count + 1
        /\ last.post.consecutive_failures = last.pre.consecutive_failures + 1
        /\ logs[last.log].status = "error"

\* C9: when fetch_data returns success with from_cache false on a
\* cache-enabled data source, cached_data is the returned data,
\* record_count the returned count, success_count one more than before,
\* consecutive_failures 0, the status healthy, and the refresh-log row of
\* the call has status success.
C9_SuccessfulFetch ==
    (Refreshed /\ last.pre.cache_enabled) =>
        /\ last.post.cached_data = last.data
        /\ last.post.record_count = last.record_count
        /\ last.post.success_count = last.pre.success_count + 1
        /\ last.post.consecutive_failures = 0
        /\ last.post.health_status = "healthy"
        /\ logs[last.log].status = "success"

C9_Witness ==
    /\ Refreshed /\ last.pre.cache_enabled
    /\ last.pre.cached_data # last.data
    /\ last.pre.consecutive_failures > 0

\* C10: a refresh-log row is created with status running, has been
\* completed exactly once, to success or to error, whenever no fetch_data
\* call is in progress, and is not modified once it is completed.
C10_LogLifecycle ==
    /\ [](\A i \in 1..Len(logs) :
             /\ completions[i] <= 1
             /\ (logs[i].status = "running") <=> (completions[i] = 0)
             /\ pc = "idle" => /\ completions[i] = 1
                               /\ logs[i].status \in {"success", "error"})
    /\ [][/\ Len(logs') >= Len(logs)
          /\ \A i \in 1..Len(logs') :
                IF i <= Len(logs)
                THEN logs[i].status # "running" => logs'[i] = logs[i]
                ELSE logs'[i].status = "running"]_vars

Fetching == {w \in Workers : workers[w].pc = "fetching"}

\* C11: whatever the interleaving of manual refreshes, scheduled refresh
\* tasks, test-connection, schema-inference and widget fetches, at most one
\* non-cache-hit fetch of the data source is in progress at any time.
C11_SingleRefresh == Cardinality(Fetching) <= 1

\* C12: while refresh_in_progress is true nobody queues another refresh
\* task for the data source: the only message queued with the flag set is
\* the one of the manual route that has just set it.
C12_NoDuplicateEnqueue ==
    [][(ds.refresh_in_progress /\ Len(queue') > Len(queue)) =>
          (route_pc = "marked" /\ queue'[Len(queue')] = "manual")]_vars

\* C15: after any sequence of completed fetch attempts, made through
\* fetch_data directly or through the background refresh task, error_count
\* is the number of attempts that failed and success_count the number that
\* succeeded; a failed attempt adds exactly one to error_count and to
\* consecutive_failures, a successful one leaves error_count alone.
C15_AttemptAccounting ==
    /\ [](/\ ds.error_count = attempts.failed
          /\ ds.success_count = attempts.ok)
    /\ [][/\ attempts'.failed = attempts.failed + 1 =>
                /\ ds'.error_count = ds.error_count + 1
                /\ ds'.consecutive_failures = ds.consecutive_failures + 1
          /\ attempts'.ok = attempts.ok + 1 =>
                ds'.error_count = ds.error_count]_vars

\* C13: the data-source delete route never deletes a data source that has
\* an active widget: while there is one, no step sets deleted_at or clears
\* is_active, and a refused delete leaves both as they were.
C13_DeleteGuard ==
    [][(\E i \in 1..Len(widgets) : widgets[i].is_active) =>
          /\ ds'.deleted_at = ds.deleted_at
          /\ ds'.is_active = ds.is_active]_vars

C13_Witness ==
    /\ resp.route = "delete" /\ resp.status = "refused"
    /\ \E i \in 1..Len(widgets) : widgets[i].is_active
    /\ ds.deleted_at = None /\ ds.is_active

\* C18: whatever fails inside process_widget, it returns success false
\* with an error message; it never raises to the route that called it.
C18_ProcessWidgetNeverRaises ==
    resp.route \in {"view", "dashboard_data"} =>
        \A i \in 1..Len(resp.results) : resp.results[i] # "raised"

\* C19: in the dashboard view and in the dashboard data API a widget that
\* fails, by answering success false or by raising, does not keep the
\* other widgets of the dashboard from being processed and, when they
\* succeed, included in the response.
C19_SiblingIsolation ==
    resp.route \in {"view", "dashboard_data"} =>
        /\ Len(resp.results) = resp.n
        /\ \A i \in 1..Len(resp.results) :
              resp.results[i] = "ok" =>
                 \E j \in 1..Len(resp.included) : resp.included[j] = i

\* The transform script was run and raised.
ScriptRaised ==
    /\ Ended /\ last.fetcher = 1 /\ last.pre.transform_script
    /\ last.exec \in {"raises", "changes_raises"}

\* C14: when the data source has a transform script and running it raises,
\* fetch_data returns success true, the data returned and cached is the
\* fetcher's output untransformed, and record_success is applied, not
\* record_error.
C14_TransformFailureDegrades ==
    ScriptRaised =>
        /\ last.success /\ ~last.from_cache
        /\ last.data = last.raw
        /\ last.post.cached_data = last.raw
        /\ last.post.success_count = last.pre.success_count + 1
        /\ last.post.error_count = last.pre.error_count

\* The path names a key that a mapping on the way does not have.
RECURSIVE MissingKey(_, _)
MissingKey(doc, parts) ==
    /\ parts # <<>>
    /\ doc.kind = "dict"
    /\ \/ ~("sub" \in DOMAIN doc /\ Head(parts) \in DOMAIN doc.sub)
       \/ /\ "sub" \in DOMAIN doc /\ Head(parts) \in DOMAIN doc.sub
          /\ MissingKey(doc.sub[Head(parts)], Tail(parts))

\* C17: when data_path names a key that the parsed payload does not have,
\* the extraction fails: fetch_data returns success false and records an
\* error, and never returns success with a null payload.
C17_MissingKeyIsError ==
    (Ended /\ last.response # NoData
           /\ MissingKey(last.response, last.pre.data_path)) =>
        /\ ~last.success
        /\ last.post.error_count = last.pre.error_count + 1

\* The health route answered, after s successes and e errors were counted.
Rated == resp.route = "health"
Abs(x) == IF x < 0 THEN -x ELSE x

\* C16 as stated: success_rate is 100 when nothing was counted and otherwise
\* exactly success_count * 100 / (success_count + error_count).
C16_ExactQuotient ==
    Rated =>
        LET s == resp.counted[1]
            total == resp.counted[1] + resp.counted[2]
        IN  IF total = 0 THEN resp.success_rate = 10000
            ELSE resp.success_rate * total = s * 10000

\* C16: success_rate is 100 when success_count + error_count = 0, and
\* otherwise success_count * 100 / (success_count + error_count) rounded to
\* two decimals, that is, a multiple of 0.01 at most 0.005 away from the
\* quotient (7 successes and 3 errors give 70); it lies in the range 0..100.
C16_SuccessRate ==
    Rated =>
        LET s == resp.counted[1]
            total == resp.counted[1] + resp.counted[2]
        IN  /\ resp.success_rate \in 0..10000
            /\ total = 0 => resp.success_rate = 10000
            /\ total > 0 =>
                   2 * Abs(resp.success_rate * total - s * 10000) <= total
            /\ (s = 7 /\ total = 10) => resp.success_rate = 7000

C16_Witness ==
    /\ Rated
    /\ resp.counted = <<2, 1>>
    /\ resp.success_rate = 6667

\* C20: on every exit path of the link fetcher (download error, error while
\* writing chunks to the scratch file, read or parse error, success), the
\* temporary file it created no longer exists when the fetcher returns or
\* raises.
C20_ScratchFileCleanup ==
    (link.pc = "idle" /\ link.fetch > 0) => link.fetch \notin tmp_files

\* C21: for a table widget, total_rows equals the number of rows remaining
\* after the filters are applied and before truncation to the widget's
\* limit, so when more rows pass the filters than the limit allows,
\* total_rows is greater than the number of rows returned.
C21_TableTotalCount ==
    resp.route = "table" =>
        /\ resp.total_rows = resp.passed
        /\ (resp.limit # None /\ resp.passed > resp.limit) =>
               resp.total_rows > Len(resp.rows)

\* C22: when the declared format is not 'auto' the resolved format is the
\* declared one regardless of file content; when it is 'auto' the format is
\* resolved by the MIME registry first, then by the extension mapping, and
\* only if both give nothing by the first 8 bytes, so a file beginning with
\* %PDF and named with a .dat extension resolves to PDF, and a file with no
\* matching MIME type, extension or signature resolves to no format.
C22_FormatResolution ==
    /\ (resp.route = "create_upload" /\ resp.declared # "AUTO") =>
           resp.data_format = resp.declared
    /\ (resp.route = "detect"
          \/ (resp.route = "create_upload" /\ resp.declared = "AUTO")) =>
           LET by_mime == mime_mapping(guess_type(resp.file.ext, resp.registry))
               by_ext == ext_mapping(resp.file.ext)
               by_sig == _detect_by_signature(resp.file)
           IN  /\ by_mime # NoFormat => resp.detected = by_mime
               /\ (by_mime = NoFormat /\ by_ext # NoFormat) =>
                      resp.detected = by_ext
               /\ (by_mime = NoFormat /\ by_ext = NoFormat) =>
                      resp.detected = by_sig
               /\ (resp.file.ext = ".csv" /\ resp.registry = "spreadsheet") =>
                      resp.detected = "EXCEL"
               /\ (resp.file.ext = ".dat" /\ resp.file.header = "%PDF") =>
                      resp.detected = "PDF"
               /\ (resp.file.ext = ".dat" /\ resp.file.header = "other") =>
                      resp.detected = NoFormat

C22_Witness ==
    /\ resp.route = "detect"
    /\ resp.file = [ext |-> ".dat", header |-> "%PDF"]
    /\ resp.detected = "PDF"

\* The data source has auto-refresh on and a refresh frequency.
Scheduled(d) ==
    d.auto_refresh /\ d.refresh_frequency # None /\ d.refresh_frequency # 0

\* C23: after every record_error on a data source with auto_refresh enabled
\* and a refresh_frequency set, next_refresh equals the time of the failure
\* plus refresh_frequency seconds, exactly as after record_success; no
\* number of consecutive failures (including health_status 'down') stops
\* the next refresh from being scheduled.
C23_RetryScheduled ==
    [][ /\ (ds'.error_count = ds.error_count + 1 /\ Scheduled(ds)) =>
               ds'.next_refresh = now + ds.refresh_frequency
        /\ (ds'.success_count = ds.success_count + 1 /\ Scheduled(ds)) =>
               ds'.next_refresh = now + ds.refresh_frequency ]_vars

C23_Witness ==
    /\ Scheduled(ds)
    /\ ds.health_status = "down"
    /\ ds.last_refresh_status = "error"
    /\ ds.last_refresh > 0
    /\ ds.next_refresh = ds.last_refresh + ds.refresh_frequency

\* C24: record_error sets alert_sent_at to the current time only when
\* alert_on_failure is true, consecutive_failures (after increment) is at
\* least alert_threshold, and either no alert was ever sent or more than
\* one hour has passed since alert_sent_at; consequently any two successive
\* values of alert_sent_at are more than one hour apart, and record_success
\* never changes alert_sent_at.
C24_AlertCooldown ==
    [][ /\ ds'.alert_sent_at # ds.alert_sent_at =>
               /\ ds'.error_count = ds.error_count + 1
               /\ ds'.alert_sent_at = now
               /\ ds.alert_on_failure
               /\ ds.consecutive_failures + 1 >= ds.alert_threshold
               /\ \/ ds.alert_sent_at = None
                  \/ now - ds.alert_sent_at > AlertCooldown
               /\ ds.alert_sent_at # None =>
                      ds'.alert_sent_at - ds.alert_sent_at > AlertCooldown
        /\ ds'.success_count = ds.success_count + 1 =>
               ds'.alert_sent_at = ds.alert_sent_at ]_vars

\* Two errors on a data source alerting at the first failure, the second
\* one alerted again.
C24_Witness ==
    /\ ds.alert_on_failure /\ ds.alert_threshold = 1
    /\ ds.success_count = 0 /\ ds.error_count = 2
    /\ ds.alert_sent_at = ds.last_refresh
    /\ ds.alert_sent_at > AlertCooldown

\* C25: after any interleaving of refreshes of the same cache-enabled data
\* source, cached_data equals the data produced by the successful fetch that
\* completed last, and cached_at is the time of that fetch; a fetch that
\* ends in error never overwrites the cache.
C25_LastWriterWins ==
    /\ [](attempts.ok > 0 =>
             /\ ds.cached_data = attempts.data
             /\ ds.cached_at = attempts.t)
    /\ [][attempts'.failed = attempts.failed + 1 =>
             /\ ds'.cached_data = ds.cached_data
             /\ ds'.cached_at = ds.cached_at]_vars

\* C26: in every state reachable by any sequence of record_success and
\* record_error calls from the initial state (health 'unknown', all
\* counters 0), health_status = 'down' if and only if consecutive_failures
\* >= 5, consecutive_failures >= 3 implies health_status is 'degraded' or
\* 'down', and health_status = 'healthy' implies consecutive_failures <= 2.
C26_HealthTracksStreak ==
    /\ ds.health_status = "down" <=> ds.consecutive_failures >= 5
    /\ ds.consecutive_failures >= 3 =>
           ds.health_status \in {"degraded", "down"}
    /\ ds.health_status = "healthy" => ds.consecutive_failures <= 2

\* Three failures in a row after twelve successes: the rate is 80, it is
\* the streak that degrades the data source.
C26_Witness ==
    /\ ds.success_count = 12
    /\ ds.consecutive_failures = 3
    /\ ds.error_count = 3
    /\ ds.health_status = "degraded"

\* The call before the last one was a forced refresh that ended in error.
AfterFailedRefresh ==
    /\ Ended /\ ~last.force
    /\ prev.force /\ prev.outcome \in {"fail", "raised"}

\* C27: a fetch_data call that ends in error leaves cached_data and
\* cached_at unchanged, so after a failed forced refresh a following
\* fetch_data(force_refresh=false) made before the previous cache expires
\* still returns the previously cached data with success=true and
\* from_cache=true, even though health_status may be 'degraded' or 'down'.
C27_FailedFetchKeepsCache ==
    /\ []((Ended /\ Failed) =>
             /\ last.post.cached_data = last.pre.cached_data
             /\ last.post.cached_at = last.pre.cached_at)
    /\ []((AfterFailedRefresh /\ is_cache_valid(last.pre, last.t_call)) =>
             /\ last.success /\ last.from_cache
             /\ last.data = last.pre.cached_data
             /\ last.pre.cached_at = prev.cached_at)
    /\ [][ds'.cached_data # ds.cached_data \/ ds'.cached_at # ds.cached_at =>
             /\ pc = "fetching" /\ pc' = "idle"
             /\ last'.success /\ ~last'.from_cache]_vars

C27_Witness ==
    /\ AfterFailedRefresh
    /\ last.from_cache /\ last.success
    /\ last.data \in Payloads
    /\ last.pre.health_status = "degraded"

\* A task queued by the manual refresh route has not been taken yet.
ManualQueued == \E i \in 1..Len(queue) : queue[i] = "manual"

AllComplete == \A w \in Workers : workers[w].pc = "idle"

\* C30: when two fetch attempts on the same data source run concurrently,
\* each in its own persistence session doing read-modify-write of
\* success_count, error_count and consecutive_failures, both attempts are
\* reflected after both complete: success_count + error_count has grown by
\* one per attempt, and consecutive_failures is what the same outcomes
\* applied one after the other would give (the number of attempts when all
\* of them failed, 0 when none did).
C30_NoLostCounterUpdates ==
    AllComplete =>
        /\ ds.success_count + ds.error_count = attempts.ok + attempts.failed
        /\ attempts.ok = 0 => ds.consecutive_failures = attempts.failed
        /\ attempts.failed = 0 => ds.consecutive_failures = 0

====
